---- MODULE Spec2Model ----
(***************************************************************************)
(* Model of src/app.py: the complaint analysis pipeline                    *)
(* (process_complaint_data, perform_analysis, analyze_by_location) and the *)
(* upload handler (upload_file) that saves an uploaded spreadsheet in      *)
(* UPLOAD_FOLDER and analyses it.                                          *)
(*                                                                         *)
(* A spreadsheet is a set of column names and a sequence of rows; a row is *)
(* a record over the columns; a cell is a string (a population total is a  *)
(* number), and a blank cell is the value Blank (pandas reads it as NaN: it*)
(* equals nothing, not even itself, in a comparison, and the counting      *)
(* operations skip it).                                                    *)
(* Each call is a request r of the set active, and runs the handler's      *)
(* statements one action at a time.                                        *)
(***************************************************************************)
EXTENDS Integers, Sequences, FiniteSets, TLC

VARIABLES active, tie, fs, caller, request, file_path, translation_file,
          population_file, pc, df, translation_df, population_df,
          by_atoll, by_island, exc, result, response

vars == <<active, tie, fs, caller, request, file_path, translation_file,
          population_file, pc, df, translation_df, population_df,
          by_atoll, by_island, exc, result, response>>

(***************************************************************************)
(* Values                                                                  *)
(***************************************************************************)
Blank == "NaN"

EmptyDict == [k \in {} |-> 0]

DictGet(d, k, default) == IF k \in DOMAIN d THEN d[k] ELSE default

NoExc == [type |-> "none", msg |-> "", args |-> <<>>]

Exception(type, msg, args) == [type |-> type, msg |-> msg, args |-> args]

Return(v) == [raised |-> NoExc, value |-> v]

Raise(e) == [raised |-> e, value |-> EmptyDict]

NoTable == [parseable |-> TRUE, columns |-> {}, rows |-> <<>>]

\* a variable holding None, and a DataFrame
NoneDF == [is_none |-> TRUE, columns |-> {}, rows |-> <<>>]

DataFrame(columns, rows) == [is_none |-> FALSE, columns |-> columns, rows |-> rows]

Garbage == [parseable |-> FALSE, columns |-> {}, rows |-> <<>>]

Table(columns, rows) == [parseable |-> TRUE, columns |-> columns, rows |-> rows]

\* None, or a path at which no file exists
None == [supplied |-> FALSE, file |-> NoTable]

Supplied(file) == [supplied |-> TRUE, file |-> file]

(***************************************************************************)
(* Configuration, lines 26-44                                              *)
(***************************************************************************)
UPLOAD_FOLDER == "/tmp/uploads"

ALLOWED_EXTENSIONS == {"xlsx", "xls"}

NoExt == "(no dot)"

\* str.lower() on the extensions the requests carry
Lower(ext) ==
  CASE ext = "XLSX" -> "xlsx"
    [] ext = "XLS" -> "xls"
    [] OTHER -> ext

\* a filename is a directory prefix, a stem and an extension
allowed_file(filename) ==
  /\ filename.ext # NoExt
  /\ Lower(filename.ext) \in ALLOWED_EXTENSIONS

\* werkzeug's secure_filename turns the path separators into blanks, joins
\* the pieces with "_" and strips leading dots and underscores: of
\* "../data.xlsx" it leaves "data.xlsx"
secure_filename(filename) == [filename EXCEPT !.dir = ""]

path_join(folder, filename) == [folder |-> folder, name |-> filename]

(***************************************************************************)
(* pandas operations used by the pipeline                                  *)
(***************************************************************************)
\* pd.read_excel
read_excel(file) ==
  IF file.parseable
    THEN Return(DataFrame(file.columns, file.rows))
    ELSE Raise(Exception("ValueError", "Excel file format cannot be determined", <<>>))

RECURSIVE unique(_)
\* Series.unique(): the values in order of first appearance, NaN included
unique(s) ==
  IF s = <<>> THEN <<>>
  ELSE LET front == unique(SubSeq(s, 1, Len(s) - 1))
           last == s[Len(s)]
       IN IF \E i \in 1..Len(front) : front[i] = last
            THEN front ELSE Append(front, last)

Column(rows, col) == [i \in 1..Len(rows) |-> rows[i][col]]

\* comparison of a cell with a value: NaN == NaN is False
CellEq(cell, v) == cell # Blank /\ v # Blank /\ cell = v

\* df[df[col] == v]
Filter(rows, col, v) == SelectSeq(rows, LAMBDA row : CellEq(row[col], v))

\* the number of values, NaN not counted: a value that repeats counts again
nunique_count(s) == Len(SelectSeq(s, LAMBDA v : v # Blank))

\* Series.nunique(): the number of distinct values, NaN not counted
nunique(s) == Cardinality({s[i] : i \in 1..Len(s)} \ {Blank})

\* the order of the group keys of a groupby (sort=True): the labels sorted
LabelOrder ==
  <<"s01", "s02", "s03", "s04", "s05", "s06", "s07", "s08", "s09", "s10",
    "s11", "s12", "s13", "s14", "s15", "s16", "s17", "s18", "s19", "s20",
    "s21", "s22", "s23", "s24", "s25", "s26", "x", "x_en", "y", "y_en">>

RECURSIVE InsertStable(_, _)
InsertStable(sorted, e) ==
  IF sorted = <<>> THEN <<e>>
  ELSE IF sorted[Len(sorted)].value >= e.value THEN Append(sorted, e)
  ELSE Append(InsertStable(SubSeq(sorted, 1, Len(sorted) - 1), e), sorted[Len(sorted)])

RECURSIVE InsertReversed(_, _)
InsertReversed(sorted, e) ==
  IF sorted = <<>> THEN <<e>>
  ELSE IF sorted[Len(sorted)].value > e.value THEN Append(sorted, e)
  ELSE Append(InsertReversed(SubSeq(sorted, 1, Len(sorted) - 1), e), sorted[Len(sorted)])

\* the entries left in the order they came in
sort_values_unsorted(items, ties) == items

RECURSIVE sort_values(_, _)
\* sort_values(ascending=False), and the sort inside value_counts: the
\* largest value first; pandas leaves the order of equal values to the
\* sorting algorithm, ties says which of two orders it produces
sort_values(items, ties) ==
  IF items = <<>> THEN <<>>
  ELSE LET rest == sort_values(SubSeq(items, 1, Len(items) - 1), ties)
       IN IF ties = "stable" THEN InsertStable(rest, items[Len(items)])
                             ELSE InsertReversed(rest, items[Len(items)])

Series(items) == [type |-> "Series", items |-> items]

\* the literal {} of lines 173-174
dict == [type |-> "dict", items |-> <<>>]

\* Series.value_counts(): the count of every value but NaN, largest first
value_counts(s, ties) ==
  LET keys == SelectSeq(unique(s), LAMBDA v : v # Blank)
  IN Series(sort_values(
       [i \in 1..Len(keys) |->
          [name |-> keys[i],
           value |-> Len(SelectSeq(s, LAMBDA v : v = keys[i]))]], ties))

\* rows.groupby(by)[col].nunique(): one entry per value of by but NaN, in
\* the order of the sorted keys
groupby_nunique(rows, by, col) ==
  LET present == {rows[i][by] : i \in 1..Len(rows)} \ {Blank}
      keys == SelectSeq(LabelOrder, LAMBDA k : k \in present)
  IN Series([i \in 1..Len(keys) |->
       [name |-> keys[i],
        value |-> nunique(Column(Filter(rows, by, keys[i]), col))]])

\* a float is NaN, or a number kept in hundredths
NaN == [nan |-> TRUE, v |-> 0]

Float(hundredths) == [nan |-> FALSE, v |-> hundredths]

\* round(x, 2) of an exact quotient, in hundredths, half to even
Round2(num, den) ==
  LET q == num \div den
      rem == num % den
  IN IF 2 * rem > den THEN q + 1
     ELSE IF 2 * rem = den THEN q + (q % 2)
     ELSE q

\* (counts / total * 100).round(2) of one entry. A division of Series by
\* zero raises nothing: 0/0 is NaN (a count over a total of 0 is 0 itself,
\* since no count exceeds its total)
Percentage(count, total) ==
  IF total = 0 THEN NaN
  ELSE Float(Round2(count * 10000, total))

\* (series / total * 100).round(2)
Percentages(series, total) ==
  Series([i \in 1..Len(series.items) |->
    [name |-> series.items[i].name,
     value |-> Percentage(series.items[i].value, total)]])

TopN == 20

\* obj.head(n): the first n entries of a Series; a dict has no head
head(obj, n) ==
  IF obj.type = "Series"
    THEN Return(Series(SubSeq(obj.items, 1, IF Len(obj.items) < n THEN Len(obj.items) ELSE n)))
    ELSE Raise(Exception("AttributeError", "'dict' object has no attribute 'head'", <<>>))

(***************************************************************************)
(* process_complaint_data, lines 46-105                                    *)
(***************************************************************************)
required_columns ==
  <<"category", "subcategory", "person_id", "household_id", "row_id", "island", "atoll">>

\* the first absent column alone
missing_columns_first(d) ==
  LET absent == SelectSeq(required_columns, LAMBDA col : col \notin d.columns)
  IN SubSeq(absent, 1, IF absent = <<>> THEN 0 ELSE 1)

\* line 64
missing_columns(d) == SelectSeq(required_columns, LAMBDA col : col \notin d.columns)

MergeKeys == <<"category", "subcategory">>

JoinRow(row, right, extra) ==
  LET matches == SelectSeq(right.rows,
                   LAMBDA m : \A i \in 1..Len(MergeKeys) : m[MergeKeys[i]] = row[MergeKeys[i]])
  IN IF matches = <<>>
       THEN <<row @@ [c \in extra |-> Blank]>>
       ELSE [j \in 1..Len(matches) |-> row @@ [c \in extra |-> matches[j][c]]]

RECURSIVE JoinRows(_, _, _)
JoinRows(rows, right, extra) ==
  IF rows = <<>> THEN <<>>
  ELSE JoinRows(SubSeq(rows, 1, Len(rows) - 1), right, extra)
         \o JoinRow(rows[Len(rows)], right, extra)

\* left.merge(right, on=['category', 'subcategory'], how='left'): every left
\* row once per matching right row, in order, or once with the right
\* columns blank when no right row matches; a key the right table lacks is
\* a KeyError
merge(left, right) ==
  LET absent == SelectSeq(MergeKeys, LAMBDA k : k \notin right.columns)
      extra == right.columns \ {MergeKeys[i] : i \in 1..Len(MergeKeys)}
  IN IF absent # <<>>
       THEN Raise(Exception("KeyError", absent[1], <<>>))
       ELSE Return(DataFrame(left.columns \cup extra, JoinRows(left.rows, right, extra)))

\* df.get(col, default): the column when the frame has it, else the default
df_get(d, col, default) == IF col \in d.columns THEN Column(d.rows, col) ELSE default

\* df[col] = values
df_set(d, col, values) ==
  DataFrame(d.columns \cup {col},
            [i \in 1..Len(d.rows) |-> (col :> values[i]) @@ d.rows[i]])

\* lines 80-88
apply_translations(d, translations) ==
  IF ~translations.is_none
    THEN LET merged == merge(d, translations)
         IN IF merged.raised # NoExc THEN merged
            ELSE LET m == merged.value
                     s == df_set(m, "subcategory_en",
                                 df_get(m, "subcategory_en", Column(m.rows, "subcategory")))
                 IN Return(df_set(s, "category_en",
                                  df_get(s, "category_en", Column(s.rows, "category"))))
    ELSE LET s == df_set(d, "subcategory_en", Column(d.rows, "subcategory"))
         IN Return(df_set(s, "category_en", Column(s.rows, "category")))

(***************************************************************************)
(* analyze_by_location, lines 128-199                                      *)
(***************************************************************************)
\* lines 162-170
population_lookup(population, location_col, location) ==
  IF population.is_none THEN Return(EmptyDict)
  ELSE IF location_col \notin population.columns
    THEN Raise(Exception("KeyError", location_col, <<>>))
  ELSE LET pop_data == Filter(population.rows, location_col, location)
       IN IF pop_data = <<>> THEN Return(EmptyDict)
          ELSE Return([total_population |-> DictGet(pop_data[1], "total_population", 0),
                       total_households |-> DictGet(pop_data[1], "total_households", 0)])

\* lines 182-197: the dict literal evaluates its values in order, and the
\* first head() that raises ends it
location_record(sc, sp, ic, ip, ipp, hc, hp, hpp, info, summary) ==
  LET h_ipp == head(ipp, TopN)
      h_hpp == head(hpp, TopN)
  IN IF h_ipp.raised # NoExc THEN h_ipp
     ELSE IF h_hpp.raised # NoExc THEN h_hpp
     ELSE Return([subcategory_counts |-> head(sc, TopN).value,
                  subcategory_percentages |-> head(sp, TopN).value,
                  individual_counts |-> head(ic, TopN).value,
                  individual_percentages |-> head(ip, TopN).value,
                  individual_pop_percentages |-> h_ipp.value,
                  household_counts |-> head(hc, TopN).value,
                  household_percentages |-> head(hp, TopN).value,
                  household_pop_percentages |-> h_hpp.value,
                  population_info |-> info,
                  summary |-> summary])

\* the body of the loop, lines 146-197, for one location
location_stats(d, location_col, location, population, ties) ==
  LET location_data == Filter(d.rows, location_col, location)
      subcategory_counts == value_counts(Column(location_data, "subcategory_en"), ties)
      subcategory_percentages == Percentages(subcategory_counts, Len(location_data))
      individual_counts ==
        Series(sort_values(groupby_nunique(location_data, "subcategory_en", "person_id").items, ties))
      total_individuals == nunique(Column(location_data, "person_id"))
      individual_percentages == Percentages(individual_counts, total_individuals)
      household_counts ==
        Series(sort_values(groupby_nunique(location_data, "subcategory_en", "household_id").items, ties))
      total_households == nunique(Column(location_data, "household_id"))
      household_percentages == Percentages(household_counts, total_households)
      looked == population_lookup(population, location_col, location)
  IN IF looked.raised # NoExc THEN looked
     ELSE LET population_info == looked.value
              individual_pop_percentages ==
                IF DictGet(population_info, "total_population", 0) > 0
                  THEN Percentages(individual_counts, population_info.total_population)
                  ELSE dict
              household_pop_percentages ==
                IF DictGet(population_info, "total_households", 0) > 0
                  THEN Percentages(household_counts, population_info.total_households)
                  ELSE dict
          IN location_record(subcategory_counts, subcategory_percentages,
                             individual_counts, individual_percentages,
                             individual_pop_percentages,
                             household_counts, household_percentages,
                             household_pop_percentages, population_info,
                             [total_complaints |-> Len(location_data),
                              total_individuals |-> total_individuals,
                              total_households |-> total_households])

RECURSIVE analyze_loop(_, _, _, _, _, _)
\* the loop of line 145 over the first k locations: the first location whose
\* body raises ends the analysis
analyze_loop(d, location_col, population, ties, locations, k) ==
  IF k = 0 THEN Return(EmptyDict)
  ELSE LET before == analyze_loop(d, location_col, population, ties, locations, k - 1)
       IN IF before.raised # NoExc THEN before
          ELSE LET now == location_stats(d, location_col, locations[k], population, ties)
               IN IF now.raised # NoExc THEN now
                  ELSE Return((locations[k] :> now.value) @@ before.value)

analyze_by_location(d, location_col, population, ties) ==
  LET locations == unique(Column(d.rows, location_col))
  IN analyze_loop(d, location_col, population, ties, locations, Len(locations))


(***************************************************************************)
(* The call of process_complaint_data by request r, statement by statement *)
(***************************************************************************)
Goto(r, label) == pc' = [pc EXCEPT ![r] = label]

Throw(r, e) == exc' = [exc EXCEPT ![r] = e] /\ Goto(r, "raising")

\* line 60
ReadMain(r) ==
  /\ pc[r] = "call"
  /\ LET read == read_excel(fs[file_path[r]])
     IN IF read.raised # NoExc
          THEN Throw(r, read.raised) /\ UNCHANGED df
          ELSE /\ df' = [df EXCEPT ![r] = read.value]
               /\ Goto(r, "validate")
               /\ UNCHANGED exc
  /\ UNCHANGED <<active, tie, fs, caller, request, file_path, translation_file,
                 population_file, translation_df, population_df, by_atoll,
                 by_island, result, response>>

\* lines 62-67
ValidateColumns(r) ==
  /\ pc[r] = "validate"
  /\ IF missing_columns(df[r]) # <<>>
       THEN Throw(r, Exception("ValueError", "Missing required columns", missing_columns(df[r])))
       ELSE Goto(r, "read_aux") /\ UNCHANGED exc
  /\ UNCHANGED <<active, tie, fs, caller, request, file_path, translation_file,
                 population_file, df, translation_df, population_df, by_atoll,
                 by_island, result, response>>

\* lines 69-77
ReadAuxiliary(r) ==
  /\ pc[r] = "read_aux"
  /\ LET t == IF translation_file[r].supplied
                THEN read_excel(translation_file[r].file) ELSE Return(NoneDF)
         p == IF population_file[r].supplied
                THEN read_excel(population_file[r].file) ELSE Return(NoneDF)
     IN IF t.raised # NoExc
          THEN Throw(r, t.raised) /\ UNCHANGED <<translation_df, population_df>>
        ELSE IF p.raised # NoExc
          THEN /\ Throw(r, p.raised)
               /\ translation_df' = [translation_df EXCEPT ![r] = t.value]
               /\ UNCHANGED population_df
        ELSE /\ translation_df' = [translation_df EXCEPT ![r] = t.value]
             /\ population_df' = [population_df EXCEPT ![r] = p.value]
             /\ Goto(r, "translate")
             /\ UNCHANGED exc
  /\ UNCHANGED <<active, tie, fs, caller, request, file_path, translation_file,
                 population_file, df, by_atoll, by_island, result, response>>

\* lines 79-88
ApplyTranslations(r) ==
  /\ pc[r] = "translate"
  /\ LET labelled == apply_translations(df[r], translation_df[r])
     IN IF labelled.raised # NoExc
          THEN Throw(r, labelled.raised) /\ UNCHANGED df
          ELSE /\ df' = [df EXCEPT ![r] = labelled.value]
               /\ Goto(r, "atoll")
               /\ UNCHANGED exc
  /\ UNCHANGED <<active, tie, fs, caller, request, file_path, translation_file,
                 population_file, translation_df, population_df, by_atoll,
                 by_island, result, response>>

\* lines 91, 118-121
AnalyzeAtoll(r) ==
  /\ pc[r] = "atoll"
  /\ LET a == analyze_by_location(df[r], "atoll", population_df[r], tie)
     IN IF a.raised # NoExc
          THEN Throw(r, a.raised) /\ UNCHANGED by_atoll
          ELSE /\ by_atoll' = [by_atoll EXCEPT ![r] = a.value]
               /\ Goto(r, "island")
               /\ UNCHANGED exc
  /\ UNCHANGED <<active, tie, fs, caller, request, file_path, translation_file,
                 population_file, df, translation_df, population_df,
                 by_island, result, response>>

\* lines 123-126
AnalyzeIsland(r) ==
  /\ pc[r] = "island"
  /\ LET a == analyze_by_location(df[r], "island", population_df[r], tie)
     IN IF a.raised # NoExc
          THEN Throw(r, a.raised) /\ UNCHANGED by_island
          ELSE /\ by_island' = [by_island EXCEPT ![r] = a.value]
               /\ Goto(r, "return")
               /\ UNCHANGED exc
  /\ UNCHANGED <<active, tie, fs, caller, request, file_path, translation_file,
                 population_file, df, translation_df, population_df,
                 by_atoll, result, response>>

\* lines 93-99
ReturnSuccess(r) ==
  /\ pc[r] = "return"
  /\ result' = [result EXCEPT ![r] =
       [success |-> TRUE,
        data |-> [by_atoll |-> by_atoll[r], by_island |-> by_island[r]],
        total_complaints |-> Len(df[r].rows),
        total_individuals |-> nunique(Column(df[r].rows, "person_id")),
        total_households |-> nunique(Column(df[r].rows, "household_id"))]]
  /\ Goto(r, "returned")
  /\ UNCHANGED <<active, tie, fs, caller, request, file_path, translation_file,
                 population_file, df, translation_df, population_df, by_atoll,
                 by_island, exc, response>>

\* the classes derived from Exception, among those the pipeline raises
ExceptionClasses == {"ValueError", "KeyError", "AttributeError", "TypeError"}

\* a handler for ValueError alone
catches_ValueError(e) == e.type = "ValueError"

\* except Exception, line 101
catches(e) == e.type \in ExceptionClasses

\* str(e)
str(e) == [msg |-> e.msg, args |-> e.args]

\* lines 101-105; an exception the clause does not catch leaves the function
ExceptHandler(r) ==
  /\ pc[r] = "raising"
  /\ IF catches(exc[r])
       THEN /\ result' = [result EXCEPT ![r] = [success |-> FALSE, error |-> str(exc[r])]]
            /\ Goto(r, "returned")
       ELSE Goto(r, "escaped") /\ UNCHANGED result
  /\ UNCHANGED <<active, tie, fs, caller, request, file_path, translation_file,
                 population_file, df, translation_df, population_df, by_atoll,
                 by_island, exc, response>>

(***************************************************************************)
(* upload_file, lines 290-346                                              *)
(***************************************************************************)
NoResponse == [status |-> 0, body |-> "none", error |-> "", detail |-> str(NoExc),
               report |-> EmptyDict]

\* jsonify({'error': ...}), 400 for a JSON request; flash(...) and a
\* redirect otherwise
ErrorResponse(req, error, detail) ==
  [status |-> IF req.is_json THEN 400 ELSE 302,
   body |-> IF req.is_json THEN "json" ELSE "redirect",
   error |-> error, detail |-> detail, report |-> EmptyDict]

\* generate_report, lines 201-283: the page shows the totals and the tables
\* of results['data']
generate_report(results) ==
  [total_complaints |-> DictGet(results, "total_complaints", 0),
   total_individuals |-> DictGet(results, "total_individuals", 0),
   total_households |-> DictGet(results, "total_households", 0),
   data |-> results.data]

\* lines 319-335
ReportResponse(req, report_html) ==
  [status |-> 200, body |-> IF req.is_json THEN "json" ELSE "attachment",
   error |-> "", detail |-> str(NoExc), report |-> report_html]

EmptyFilename == [dir |-> "", stem |-> "", ext |-> NoExt]

\* lines 293-309 and 342-346: the request is refused, or its file is saved
\* under its secured name in UPLOAD_FOLDER
UploadFile(r) ==
  /\ pc[r] = "upload"
  /\ LET req == request[r]
     IN IF ~req.has_file \/ req.filename = EmptyFilename
          THEN /\ response' = [response EXCEPT ![r] =
                     ErrorResponse(req, "No file selected", str(NoExc))]
               /\ Goto(r, "responded")
               /\ UNCHANGED <<fs, file_path>>
        ELSE IF allowed_file(req.filename)
          THEN LET path == path_join(UPLOAD_FOLDER, secure_filename(req.filename))
               IN /\ fs' = (path :> req.content) @@ fs
                  /\ file_path' = [file_path EXCEPT ![r] = path]
                  /\ Goto(r, "call")
                  /\ UNCHANGED response
        ELSE /\ response' = [response EXCEPT ![r] =
                   ErrorResponse(req, "Invalid file type", str(NoExc))]
             /\ Goto(r, "responded")
             /\ UNCHANGED <<fs, file_path>>
  /\ UNCHANGED <<active, tie, caller, request, translation_file, population_file,
                 df, translation_df, population_df, by_atoll, by_island, exc,
                 result>>

\* lines 314-340
Respond(r) ==
  /\ pc[r] = "returned"
  /\ caller[r] = "upload_file"
  /\ response' = [response EXCEPT ![r] =
       IF result[r].success
         THEN ReportResponse(request[r], generate_report(result[r]))
         ELSE ErrorResponse(request[r], "Error processing file", result[r].error)]
  /\ Goto(r, "responded")
  /\ UNCHANGED <<active, tie, fs, caller, request, file_path, translation_file,
                 population_file, df, translation_df, population_df, by_atoll,
                 by_island, exc, result>>

Next ==
  \/ \E r \in active : UploadFile(r)
  \/ \E r \in active : ReadMain(r)
  \/ \E r \in active : ValidateColumns(r)
  \/ \E r \in active : ReadAuxiliary(r)
  \/ \E r \in active : ApplyTranslations(r)
  \/ \E r \in active : AnalyzeAtoll(r)
  \/ \E r \in active : AnalyzeIsland(r)
  \/ \E r \in active : ReturnSuccess(r)
  \/ \E r \in active : ExceptHandler(r)
  \/ \E r \in active : Respond(r)


(***************************************************************************)
(* Inputs. Each family varies one part of the input and fixes the rest.    *)
(***************************************************************************)
MaxLabelRows == 2
MaxTranslations == 2
MaxCountRows == 2
MaxPopulationRows == 2
MaxLocatedRows == 1
MaxSubcategories == 22
MaxExtraRows == 2

SeqsUpTo(S, n) == UNION {[1..k -> S] : k \in 0..n}

RequiredSet == {required_columns[i] : i \in 1..Len(required_columns)}

Row(category, subcategory, person_id, household_id, row_id, island, atoll) ==
  [category |-> category, subcategory |-> subcategory, person_id |-> person_id,
   household_id |-> household_id, row_id |-> row_id, island |-> island, atoll |-> atoll]

Restrict(row, columns) == [c \in columns |-> row[c]]

\* the three rows of the scenario of the specification's section 8
ScenarioTable ==
  Table(RequiredSet,
        <<Row("A", "x", "p1", "h1", "r1", "IslandA", "AtollA"),
          Row("A", "x", "p1", "h2", "r2", "IslandA", "AtollA"),
          Row("B", "y", "p2", "h1", "r3", "IslandA", "AtollA")>>)

PopulationColumns == {"atoll", "island", "total_population", "total_households"}

PopulationRow(atoll, island, total_population, total_households) ==
  [atoll |-> atoll, island |-> island, total_population |-> total_population,
   total_households |-> total_households]

\* a population table with positive totals for every location of the inputs
Covering ==
  Supplied(Table(PopulationColumns,
                 <<PopulationRow("AtollA", "IslandA", 50, 20),
                   PopulationRow("AtollA", "IslandB", 30, 10)>>))

NoRequest == [has_file |-> FALSE, filename |-> EmptyFilename, is_json |-> FALSE,
              content |-> NoTable]

DirectCall(file, translations, population, ties) ==
  [caller |-> "direct", request |-> NoRequest, file |-> file,
   translation_file |-> translations, population_file |-> population, tie |-> ties]

\* the primary table with any subset of the required columns, or no table
SchemaInputs ==
  {DirectCall(Garbage, None, None, "stable")} \cup
  UNION {{DirectCall(Table(cols, rows), None, pop, "stable") :
            rows \in {<<>>, <<Restrict(Row("A", "x", "p1", "h1", "r1", "IslandA", "AtollA"), cols)>>},
            pop \in {None, Covering}} :
         cols \in SUBSET RequiredSet}

TranslationColumns == {"category", "subcategory", "category_en", "subcategory_en"}

TranslationEntries ==
  {[category |-> "A", subcategory |-> "x", category_en |-> "A_en", subcategory_en |-> "x_en"],
   [category |-> "A", subcategory |-> "y", category_en |-> "A_en", subcategory_en |-> "y_en"]}

TranslationFiles ==
  {None, Supplied(Garbage)} \cup
  {Supplied(Table(cols, [i \in 1..Len(entries) |-> Restrict(entries[i], cols)])) :
     cols \in {TranslationColumns, TranslationColumns \ {"subcategory_en"},
               TranslationColumns \ {"category"}},
     entries \in SeqsUpTo(TranslationEntries, MaxTranslations)}

LabelRows ==
  {Row(c[1], c[2], "p1", "h1", "r1", "IslandA", "AtollA") :
     c \in {<<"A", "x">>, <<"A", "y">>, <<"B", "x">>}}

\* tables whose rows have or lack a translation, with any translation table
LabelInputs ==
  {DirectCall(Table(RequiredSet, rows), t, Covering, "stable") :
     rows \in SeqsUpTo(LabelRows, MaxLabelRows), t \in TranslationFiles}

CountRows ==
  {Row("A", s, p, place[1], "r1", place[2], "AtollA") :
     s \in {"x", "y", Blank}, p \in {"p1", Blank},
     place \in {<<"h1", "IslandA">>, <<"h2", "IslandA">>, <<"h1", "IslandB">>}}

\* tables whose persons and households repeat within and across
\* subcategories, with every location in the population table
CountInputs ==
  {DirectCall(Table(RequiredSet, rows), None, Covering, "stable") :
     rows \in SeqsUpTo(CountRows, MaxCountRows)} \cup
  {DirectCall(ScenarioTable, None, pop, ties) :
     pop \in {None, Covering}, ties \in {"stable", "reversed"}}

PopulationRows ==
  {PopulationRow("AtollA", "IslandA", t[1], t[2]) : t \in {<<50, 20>>, <<0, 20>>, <<50, 0>>}} \cup
  {PopulationRow("AtollA", "IslandB", 30, 10)}

PopulationFiles ==
  {None, Supplied(Garbage)} \cup
  {Supplied(Table(cols, [i \in 1..Len(entries) |-> Restrict(entries[i], cols)])) :
     cols \in {PopulationColumns, PopulationColumns \ {"island"},
               PopulationColumns \ {"total_households"}},
     entries \in SeqsUpTo(PopulationRows, MaxPopulationRows)}

LocatedRows ==
  {Row("A", "x", "p1", "h1", "r1", l[1], l[2]) :
     l \in {<<"IslandA", "AtollA">>, <<"IslandB", "AtollA">>, <<"IslandA", Blank>>}}

\* tables with any population table: none, one without the location, one
\* with a total of zero, one without a column
PopulationInputs ==
  {DirectCall(Table(RequiredSet, rows), None, pop, "stable") :
     rows \in SeqsUpTo(LocatedRows, MaxLocatedRows), pop \in PopulationFiles}

\* n subcategories with one record each, in one location
BaseRows(n) ==
  [i \in 1..n |-> Row("A", LabelOrder[i], "p1", "h1", "r1", "IslandA", "AtollA")]

ExtraRows(n) ==
  {Row("A", s, who[1], who[2], "r1", "IslandA", "AtollA") :
     s \in {LabelOrder[n], LabelOrder[1]}, who \in {<<"p1", "h1">>, <<"p2", "h2">>}}

\* tables with about TopN subcategories in a location, some of them with
\* more records, persons or households than the others
TopInputs ==
  UNION {{DirectCall(Table(RequiredSet, BaseRows(n) \o extra), None, Covering, ties) :
            extra \in SeqsUpTo(ExtraRows(n), MaxExtraRows),
            ties \in {"stable", "reversed"}} :
         n \in TopN..MaxSubcategories}

UploadFilenames ==
  {[dir |-> d, stem |-> "data", ext |-> e] :
     d \in {"", "../"}, e \in {"xlsx", "XLS", "txt", NoExt}} \cup {EmptyFilename}

UploadContents ==
  {Garbage, Table(RequiredSet, <<>>), ScenarioTable,
   Table(RequiredSet \ {"atoll"}, <<>>)}

UploadRequests ==
  {[has_file |-> TRUE, filename |-> f, is_json |-> j, content |-> c] :
     f \in UploadFilenames, j \in BOOLEAN, c \in UploadContents} \cup
  {[has_file |-> FALSE, filename |-> EmptyFilename, is_json |-> j, content |-> NoTable] :
     j \in BOOLEAN}

\* upload_file calls process_complaint_data(file_path), line 312
UploadCall(req) ==
  [caller |-> "upload_file", request |-> req, file |-> req.content,
   translation_file |-> None, population_file |-> None, tie |-> "stable"]

UploadInputs == {UploadCall(req) : req \in UploadRequests}

Inputs ==
  SchemaInputs \cup LabelInputs \cup CountInputs \cup PopulationInputs
    \cup TopInputs \cup UploadInputs

\* the path a direct caller passes
DirectPath == path_join("/data", [dir |-> "", stem |-> "complaints", ext |-> "xlsx"])

NoPath == path_join("", EmptyFilename)

\* the requests rs start with the inputs in[r]; a direct caller's file is on
\* disk, an upload is not saved yet
Start(rs, in) ==
  /\ active = rs
  /\ tie = in[CHOOSE r \in rs : TRUE].tie
  /\ fs = [p \in {DirectPath : r \in {q \in rs : in[q].caller = "direct"}} |->
             in[CHOOSE r \in rs : in[r].caller = "direct"].file]
  /\ caller = [r \in rs |-> in[r].caller]
  /\ request = [r \in rs |-> in[r].request]
  /\ file_path = [r \in rs |-> IF in[r].caller = "direct" THEN DirectPath ELSE NoPath]
  /\ translation_file = [r \in rs |-> in[r].translation_file]
  /\ population_file = [r \in rs |-> in[r].population_file]
  /\ pc = [r \in rs |-> IF in[r].caller = "direct" THEN "call" ELSE "upload"]
  /\ df = [r \in rs |-> NoneDF]
  /\ translation_df = [r \in rs |-> NoneDF]
  /\ population_df = [r \in rs |-> NoneDF]
  /\ by_atoll = [r \in rs |-> EmptyDict]
  /\ by_island = [r \in rs |-> EmptyDict]
  /\ exc = [r \in rs |-> NoExc]
  /\ result = [r \in rs |-> EmptyDict]
  /\ response = [r \in rs |-> NoResponse]

\* one call, of process_complaint_data or of upload_file
Init == \E in \in [{1} -> Inputs] : Start({1}, in)

Spec == Init /\ [][Next]_vars

ConcurrentFilenames ==
  {[dir |-> d, stem |-> "data", ext |-> "xlsx"] : d \in {"", "../"}} \cup
  {[dir |-> "", stem |-> "other", ext |-> "xlsx"]}

ConcurrentRequests ==
  {[has_file |-> TRUE, filename |-> f, is_json |-> FALSE, content |-> c] :
     f \in ConcurrentFilenames, c \in UploadContents}

\* two uploads served at once
InitUpload ==
  \E in \in [{1, 2} -> {UploadCall(req) : req \in ConcurrentRequests}] :
    Start({1, 2}, in)

SpecUpload == InitUpload /\ [][Next]_vars

(***************************************************************************)
(* Properties                                                              *)
(***************************************************************************)
HasResult(r) == DOMAIN result[r] # {}

Succeeded(r) == HasResult(r) /\ result[r].success

Failed(r) == HasResult(r) /\ ~result[r].success

\* the primary table was read and has every required column and a row
ValidNonEmpty(r) ==
  /\ ~df[r].is_none
  /\ {"category", "subcategory", "person_id", "household_id", "row_id", "island", "atoll"}
       \subseteq df[r].columns
  /\ df[r].rows # <<>>

Dimensions == {"atoll", "island"}

Analysis(r, dim) == IF dim = "atoll" THEN result[r].data.by_atoll ELSE result[r].data.by_island

Names(items) == {items[i].name : i \in 1..Len(items)}

AsMap(series) == {<<series.items[i].name, series.items[i].value>> : i \in 1..Len(series.items)}

\* the rows of the labelled table that belong to a location
RowsAt(r, dim, loc) == {i \in 1..Len(df[r].rows) : df[r].rows[i][dim] = loc}

LabelsAt(r, dim, loc) ==
  {df[r].rows[i].subcategory_en : i \in RowsAt(r, dim, loc)} \ {Blank}

\* the count a metric gives a label in a location, from the rows themselves
TrueCount(r, dim, loc, metric, label) ==
  LET rows == {i \in RowsAt(r, dim, loc) : df[r].rows[i].subcategory_en = label}
  IN CASE metric = "subcategory" -> Cardinality(rows)
       [] metric = "individual" -> Cardinality({df[r].rows[i].person_id : i \in rows} \ {Blank})
       [] metric = "household" -> Cardinality({df[r].rows[i].household_id : i \in rows} \ {Blank})

Metrics == {"subcategory", "individual", "household"}

Counts(stats, metric) ==
  CASE metric = "subcategory" -> stats.subcategory_counts
    [] metric = "individual" -> stats.individual_counts
    [] metric = "household" -> stats.household_counts

PercentagesOf(stats, metric) ==
  CASE metric = "subcategory" -> stats.subcategory_percentages
    [] metric = "individual" -> stats.individual_percentages
    [] metric = "household" -> stats.household_percentages

\* the total a population file gives a location: that of the first row for
\* the location, 0 when the file, the row or the column is absent
TotalFor(population, dim, loc, total) ==
  IF ~population.supplied \/ total \notin population.file.columns
    THEN 0
  ELSE LET at == {i \in 1..Len(population.file.rows) : population.file.rows[i][dim] = loc}
       IN IF at = {} THEN 0
          ELSE population.file.rows[CHOOSE i \in at : \A j \in at : i <= j][total]

\* no population file, or a readable one that names its locations
PopulationUsable(r) ==
  \/ ~population_file[r].supplied
  \/ /\ population_file[r].file.parseable
     /\ Dimensions \subseteq population_file[r].file.columns

Locations(r, dim) == {df[r].rows[i][dim] : i \in 1..Len(df[r].rows)}

\* C1: for a non-empty valid complaint table, when no population table is
\* supplied, or a location has no entry in it, or the entry's total is zero
\* or absent, process_complaint_data succeeds and the location's
\* individual_pop_percentages and household_pop_percentages are each an
\* empty mapping.
C1_PopulationAbsentGuard ==
  \A r \in active :
    (/\ HasResult(r)
     /\ ValidNonEmpty(r)
     /\ ~translation_file[r].supplied
     /\ PopulationUsable(r)
     /\ \A dim \in Dimensions : Blank \notin Locations(r, dim))
    => /\ result[r].success
       /\ \A dim \in Dimensions :
            /\ DOMAIN Analysis(r, dim) = Locations(r, dim)
            /\ \A loc \in Locations(r, dim) :
                 /\ TotalFor(population_file[r], dim, loc, "total_population") = 0
                      => Analysis(r, dim)[loc].individual_pop_percentages = dict
                 /\ TotalFor(population_file[r], dim, loc, "total_households") = 0
                      => Analysis(r, dim)[loc].household_pop_percentages = dict

HasEntry(translations, row) ==
  \E j \in 1..Len(translations.rows) :
    /\ translations.rows[j].category = row.category
    /\ translations.rows[j].subcategory = row.subcategory

\* C2: with a translation table (of at least one entry), every row whose (category, subcategory)
\* has no translation entry has subcategory_en = subcategory and
\* category_en = category, rows with an entry have the translated values, and
\* no row is left without a label.
C2_MissingTranslationFallback ==
  \A r \in active :
    (/\ ~translation_df[r].is_none
     /\ {"category", "subcategory", "category_en", "subcategory_en"}
          \subseteq translation_df[r].columns
     /\ translation_df[r].rows # <<>>
     /\ "subcategory_en" \in df[r].columns)
    => \A i \in 1..Len(df[r].rows) :
         LET row == df[r].rows[i]
         IN /\ row.subcategory_en # Blank
            /\ IF HasEntry(translation_df[r], row)
                 THEN \E j \in 1..Len(translation_df[r].rows) :
                        /\ translation_df[r].rows[j].category = row.category
                        /\ translation_df[r].rows[j].subcategory = row.subcategory
                        /\ translation_df[r].rows[j].subcategory_en = row.subcategory_en
                        /\ translation_df[r].rows[j].category_en = row.category_en
                 ELSE /\ row.subcategory_en = row.subcategory
                      /\ row.category_en = row.category

\* the primary table was read and its columns were checked
Loaded(r) == ~df[r].is_none /\ pc[r] \notin {"upload", "call", "validate"}

AbsentColumns(r) ==
  {"category", "subcategory", "person_id", "household_id", "row_id", "island", "atoll"}
    \ df[r].columns

SchemaError(e) == e.type = "ValueError" /\ e.msg = "Missing required columns"

\* C3: for every subset of the seven required columns present in the primary
\* table, loading fails iff a required column is absent, the failure names
\* exactly the absent required columns, each once, and no analysis is
\* performed.
C3_SchemaValidation ==
  \A r \in active :
    Loaded(r) =>
      /\ SchemaError(exc[r]) <=> AbsentColumns(r) # {}
      /\ SchemaError(exc[r]) =>
           /\ {exc[r].args[i] : i \in 1..Len(exc[r].args)} = AbsentColumns(r)
           /\ Len(exc[r].args) = Cardinality(AbsentColumns(r))
           /\ by_atoll[r] = EmptyDict /\ by_island[r] = EmptyDict
           /\ "subcategory_en" \notin df[r].columns
           /\ HasResult(r) =>
                /\ ~result[r].success
                /\ result[r].error = [msg |-> "Missing required columns", args |-> exc[r].args]

\* a table with two required columns absent was refused, naming both
C3_Witness ==
  \E r \in active :
    /\ Failed(r)
    /\ Loaded(r)
    /\ AbsentColumns(r) = {"household_id", "atoll"}
    /\ result[r].error.args = <<"household_id", "atoll">>

\* C4: process_complaint_data never raises past its boundary: it returns a
\* success result with the analysis data, or a failure result with
\* success = False and an error message and no analysis data; upload_file
\* generates a report only for a success, and otherwise returns the failure
\* reason and no report.
C4_NeverThrows ==
  \A r \in active :
    /\ pc[r] # "escaped"
    /\ pc[r] = "returned" => HasResult(r)
    /\ HasResult(r) =>
         IF result[r].success
           THEN /\ DOMAIN result[r] = {"success", "data", "total_complaints",
                                        "total_individuals", "total_households"}
                /\ exc[r] = NoExc
           ELSE /\ DOMAIN result[r] = {"success", "error"}
                /\ result[r].error = [msg |-> exc[r].msg, args |-> exc[r].args]
                /\ exc[r] # NoExc
    /\ DOMAIN response[r].report # {} =>
         /\ Succeeded(r)
         /\ response[r].report.data = result[r].data
    /\ (pc[r] = "responded" /\ Failed(r)) =>
         /\ DOMAIN response[r].report = {}
         /\ response[r].error = "Error processing file"
         /\ response[r].detail = result[r].error

\* an upload whose analysis failed inside the aggregation was answered with
\* the reason and without a report
C4_Witness ==
  \E r \in active :
    /\ pc[r] = "responded"
    /\ Failed(r)
    /\ exc[r].type = "AttributeError"
    /\ response[r].detail.msg = "'dict' object has no attribute 'head'"
    /\ DOMAIN response[r].report = {}

\* C5: under any interleaving of concurrent uploads, each request analyses
\* the file it uploaded: what a request reads from UPLOAD_FOLDER is what it
\* saved there, also when two uploads carry the same filename.
C5_UploadIsolation ==
  \A r \in active :
    caller[r] = "upload_file" =>
      /\ pc[r] = "validate" =>
           /\ request[r].content.parseable
           /\ df[r] = DataFrame(request[r].content.columns, request[r].content.rows)
      /\ (pc[r] = "raising" /\ df[r].is_none) => ~request[r].content.parseable

\* C6: for every location and every subcategory listed for it,
\* subcategory_counts is the number of records with the subcategory,
\* individual_counts the number of distinct person_id values among them and
\* household_counts the number of distinct household_id values among them;
\* every subcategory of a location with at most 20 of them is listed; for the
\* three-row scenario the counts are {x:2, y:1}, {x:1, y:1} and {x:2, y:1}.
C6_DistinctCounts ==
  \A r \in active :
    Succeeded(r) =>
      /\ \A dim \in Dimensions : \A loc \in DOMAIN Analysis(r, dim) : \A metric \in Metrics :
           LET items == Counts(Analysis(r, dim)[loc], metric).items
           IN /\ \A i \in 1..Len(items) :
                   items[i].value = TrueCount(r, dim, loc, metric, items[i].name)
              /\ Cardinality(LabelsAt(r, dim, loc)) <= 20
                   => Names(items) = LabelsAt(r, dim, loc)
      /\ fs[file_path[r]] = ScenarioTable =>
           \A dim \in Dimensions : \A loc \in DOMAIN Analysis(r, dim) :
             /\ AsMap(Analysis(r, dim)[loc].subcategory_counts) = {<<"x", 2>>, <<"y", 1>>}
             /\ AsMap(Analysis(r, dim)[loc].individual_counts) = {<<"x", 1>>, <<"y", 1>>}
             /\ AsMap(Analysis(r, dim)[loc].household_counts) = {<<"x", 2>>, <<"y", 1>>}

\* the scenario was analysed: p1 has two records in x and counts once
C6_Witness ==
  \E r \in active :
    /\ Succeeded(r)
    /\ fs[file_path[r]] = ScenarioTable
    /\ DOMAIN result[r].data.by_island = {"IslandA"}
    /\ AsMap(result[r].data.by_island["IslandA"].individual_counts) = {<<"x", 1>>, <<"y", 1>>}
    /\ AsMap(result[r].data.by_island["IslandA"].subcategory_counts) = {<<"x", 2>>, <<"y", 1>>}

\* C7: for every location and each of the three metrics the retained list is
\* in non-increasing order of count; with at most 20 distinct subcategories
\* all are present; with more, exactly 20 are present and every retained
\* count is >= every excluded count; the percentage list covers the same
\* subcategories as the count list.
C7_TopTwenty ==
  \A r \in active :
    Succeeded(r) =>
      \A dim \in Dimensions : \A loc \in DOMAIN Analysis(r, dim) : \A metric \in Metrics :
        LET items == Counts(Analysis(r, dim)[loc], metric).items
            pcts == PercentagesOf(Analysis(r, dim)[loc], metric).items
            labels == LabelsAt(r, dim, loc)
        IN /\ \A i, j \in 1..Len(items) : i < j => items[i].value >= items[j].value
           /\ \A i, j \in 1..Len(items) : i # j => items[i].name # items[j].name
           /\ Names(items) \subseteq labels
           /\ Cardinality(labels) <= 20 => Names(items) = labels
           /\ Cardinality(labels) > 20 =>
                /\ Len(items) = 20
                /\ \A i \in 1..Len(items) : \A l \in labels \ Names(items) :
                     items[i].value >= TrueCount(r, dim, loc, metric, l)
           /\ Len(pcts) = Len(items)
           /\ \A i \in 1..Len(items) : pcts[i].name = items[i].name

\* a location with more than 20 subcategories was cut to 20, and a
\* subcategory with more records than the others was kept
C7_Witness ==
  \E r \in active :
    /\ Succeeded(r)
    /\ Cardinality(LabelsAt(r, "atoll", "AtollA")) > 20
    /\ Len(result[r].data.by_atoll["AtollA"].subcategory_counts.items) = 20
    /\ result[r].data.by_atoll["AtollA"].subcategory_counts.items[1].value = 3
    /\ result[r].data.by_atoll["AtollA"].subcategory_counts.items[2].value = 1

\* C8: for every location, every individual_counts value is <= the
\* location's distinct person_id count and every individual_percentages value
\* is a defined number <= 100; likewise for households.
C8_CountsWithinTotals ==
  \A r \in active :
    Succeeded(r) =>
      \A dim \in Dimensions : \A loc \in DOMAIN Analysis(r, dim) :
        LET stats == Analysis(r, dim)[loc]
        IN /\ \A i \in 1..Len(stats.individual_counts.items) :
                stats.individual_counts.items[i].value <= stats.summary.total_individuals
           /\ \A i \in 1..Len(stats.individual_percentages.items) :
                /\ ~stats.individual_percentages.items[i].value.nan
                /\ stats.individual_percentages.items[i].value.v <= 10000
           /\ \A i \in 1..Len(stats.household_counts.items) :
                stats.household_counts.items[i].value <= stats.summary.total_households
           /\ \A i \in 1..Len(stats.household_percentages.items) :
                /\ ~stats.household_percentages.items[i].value.nan
                /\ stats.household_percentages.items[i].value.v <= 10000

\* C9: every location key of by_atoll or by_island has
\* summary.total_complaints, total_individuals and total_households >= 1, so
\* no percentage division divides by zero, for tables whose cells may be
\* blank.
C9_TotalsAtLeastOne ==
  \A r \in active :
    Succeeded(r) =>
      \A dim \in Dimensions : \A loc \in DOMAIN Analysis(r, dim) :
        /\ Analysis(r, dim)[loc].summary.total_complaints >= 1
        /\ Analysis(r, dim)[loc].summary.total_individuals >= 1
        /\ Analysis(r, dim)[loc].summary.total_households >= 1

RECURSIVE SumComplaints(_, _)
SumComplaints(analysis, locs) ==
  IF locs = {} THEN 0
  ELSE LET loc == CHOOSE l \in locs : TRUE
       IN analysis[loc].summary.total_complaints + SumComplaints(analysis, locs \ {loc})

\* C10: label resolution neither adds nor removes records: the reported
\* total_complaints equals the number of rows of the primary table, and for
\* each grouping dimension the per-location total_complaints sum to it.
C10_RecordsPreserved ==
  \A r \in active :
    Succeeded(r) =>
      /\ result[r].total_complaints = Len(fs[file_path[r]].rows)
      /\ \A dim \in Dimensions :
           SumComplaints(Analysis(r, dim), DOMAIN Analysis(r, dim)) = Len(fs[file_path[r]].rows)

====
